---- MODULE Spec2Model ----
(***************************************************************************)
(* Model of app.py: the breast cancer prediction Flask application.        *)
(*                                                                         *)
(* The state is the module-level `model` global, the filesystem the        *)
(* loader looks at, and, per worker thread of the server, the request it   *)
(* is serving, the array built from it, the calls it made to the           *)
(* classifier and the response it returned.                                *)
(*                                                                         *)
(* Numbers: a probability is an integer count of 1/Scale; a percentage     *)
(* before rounding is a count of 1/Scale percent; the `confidence` of a    *)
(* response is a count of hundredths of a percent (two decimals).          *)
(***************************************************************************)
EXTENDS Integers, Sequences, FiniteSets, TLC

NFeatures == 8
Scale == 1000000
Slack == 3

Threads == {"t1", "t2"}
Workers == {"t1"}

----------------------------------------------------------------------------
(* JSON values of a request                                                *)

Elem(k, v) == [kind |-> k, val |-> v]

\* a finite number, and the elements np.array / the classifier may choke on;
\* a "list" element is the nested list [val, val]
FiniteElems == {Elem("num", 1), Elem("num", 2)}
OddElems == {Elem("str", 0), Elem("null", 0), Elem("nan", 0), Elem("inf", 0),
             Elem("list", 1)}
Elems == FiniteElems \cup OddElems

\* a list of n elements: the first k are e, the others the number 1
Fill(n, k, e) == [i \in 1..n |-> IF i <= k THEN e ELSE Elem("num", 1)]

Lens == {0} \cup ((NFeatures - Slack)..(NFeatures + Slack))

FeatureLists == {Fill(n, k, e) : n \in Lens, k \in {0, 1, NFeatures + Slack}, e \in Elems}

\* the value under the 'features' key
FeatVal(k, items) == [kind |-> k, items |-> items]
FeatVals == {FeatVal("list", l) : l \in FeatureLists}
              \cup {FeatVal("number", <<>>), FeatVal("null", <<>>), FeatVal("bool", <<>>)}

\* what request.get_json() parses: null, a number, or an object
Data(k, has, other, f) == [kind |-> k, hasFeatures |-> has, hasOther |-> other, features |-> f]
NoFeat == FeatVal("null", <<>>)
DataVals == {Data("null", FALSE, FALSE, NoFeat), Data("number", FALSE, FALSE, NoFeat),
             Data("object", FALSE, FALSE, NoFeat), Data("object", FALSE, TRUE, NoFeat)}
              \cup {Data("object", TRUE, FALSE, f) : f \in FeatVals}

\* the request body: absent (no JSON content), malformed JSON text, or JSON
Body(k, d) == [kind |-> k, data |-> d]
NoData == Data("null", FALSE, FALSE, NoFeat)
Bodies == {Body("absent", NoData), Body("malformed", NoData)}
              \cup {Body("json", d) : d \in DataVals}

\* the requests two threads interleave on: no JSON, a number for the list,
\* a short list, and lists of NFeatures elements, numeric or not
PostList(l) == Body("json", Data("object", TRUE, FALSE, FeatVal("list", l)))
SampleBodies ==
    {Body("absent", NoData),
     Body("json", Data("object", TRUE, FALSE, FeatVal("number", <<>>))),
     PostList(Fill(NFeatures - 1, 0, Elem("num", 1))),
     PostList(Fill(NFeatures, 0, Elem("num", 1))),
     PostList(Fill(NFeatures, 1, Elem("num", 2))),
     PostList(Fill(NFeatures, 1, Elem("str", 0)))}

----------------------------------------------------------------------------
(* The classifier artifact (joblib pickle) and the filesystem              *)

Clf(n, proba, nf, pos, pfail) ==
    [name |-> n, hasProba |-> proba, nfeat |-> nf, posLabel |-> pos, probaFails |-> pfail]

\* `None`
None == Clf("None", FALSE, 0, 0, FALSE)

\* a fitted forest; a classifier with no predict_proba; one trained on labels
\* other than 0/1; one trained on all 30 columns; one whose predict_proba fails
RandomForest == Clf("RandomForest", TRUE, NFeatures, 1, FALSE)
HardOnly == Clf("HardOnly", FALSE, NFeatures, 1, FALSE)
OtherLabels == Clf("OtherLabels", TRUE, NFeatures, 2, FALSE)
WrongShape == Clf("WrongShape", TRUE, 30, 1, FALSE)
ProbaBroken == Clf("ProbaBroken", TRUE, NFeatures, 1, TRUE)
Classifiers == {RandomForest, HardOnly, OtherLabels, WrongShape, ProbaBroken}

\* a path: whether it exists, whether joblib can load it, and what it holds
File(e, l, o) == [exists |-> e, loads |-> l, obj |-> o]
Missing == File(FALSE, FALSE, None)
Corrupt == File(TRUE, FALSE, None)
PrimaryFiles == {Missing, Corrupt} \cup {File(TRUE, TRUE, c) : c \in Classifiers}
FallbackFiles == {Missing, Corrupt, File(TRUE, TRUE, HardOnly)}

----------------------------------------------------------------------------
(* State                                                                   *)

VARIABLES
    primary,    \* model/breast_cancer_model.pkl
    fallback,   \* model.pkl
    proc,       \* "booting" | "serving" | "crashed"
    model,      \* the module global `model`
    pc,         \* per thread: "idle" | "infer" | "done"
    req,        \* per thread: the body of the request being served
    X,          \* per thread: the numpy array built from the features
    calls,      \* per thread: the calls made to the classifier for req
    resp        \* per thread: the response returned

vars == <<primary, fallback, proc, model, pc, req, X, calls, resp>>

----------------------------------------------------------------------------
(* Startup: lines 16-35                                                    *)

\* joblib.load(path)
LoadResult(ok, m) == [ok |-> ok, obj |-> m]
JoblibLoad(f) == IF f.loads THEN LoadResult(TRUE, f.obj) ELSE LoadResult(FALSE, None)

\* the try/except around the two lookups: the value bound to `model`, and
\* whether an exception left the block
Resolved(m, r) == [model |-> m, raised |-> r]
\* (faulty variant: a primary file that fails to load falls through to the
\* fallback path)
ResolveFallbackOnError(p, f) ==
    IF p.exists /\ JoblibLoad(p).ok
    THEN Resolved(JoblibLoad(p).obj, FALSE)
    ELSE IF f.exists
         THEN IF JoblibLoad(f).ok THEN Resolved(JoblibLoad(f).obj, FALSE)
              ELSE Resolved(None, FALSE)
         ELSE Resolved(None, FALSE)
Resolve(p, f) ==
    IF p.exists
    THEN IF JoblibLoad(p).ok THEN Resolved(JoblibLoad(p).obj, FALSE)
         ELSE Resolved(None, FALSE)
    ELSE IF f.exists
         THEN IF JoblibLoad(f).ok THEN Resolved(JoblibLoad(f).obj, FALSE)
              ELSE Resolved(None, FALSE)
         ELSE Resolved(None, FALSE)

----------------------------------------------------------------------------
(* Python and library calls used by predict()                              *)

\* request.get_json(): a body that is not JSON content gives None or raises
\* (415) depending on the Flask release; malformed JSON raises (400)
JsonResult(ok, d, e) == [ok |-> ok, data |-> d, err |-> e]
GetJson(b) ==
    CASE b.kind = "absent" ->
            {JsonResult(TRUE, NoData, ""), JsonResult(FALSE, NoData, "415 Unsupported Media Type")}
      [] b.kind = "malformed" -> {JsonResult(FALSE, NoData, "400 Bad Request")}
      [] OTHER -> {JsonResult(TRUE, b.data, "")}

\* bool(data)
Truthy(d) ==
    CASE d.kind = "null" -> FALSE
      [] d.kind = "number" -> TRUE
      [] OTHER -> d.hasFeatures \/ d.hasOther

\* 'features' in data
BoolResult(ok, v, e) == [ok |-> ok, val |-> v, err |-> e]
Contains(d) ==
    IF d.kind = "object" THEN BoolResult(TRUE, d.hasFeatures, "")
    ELSE BoolResult(FALSE, FALSE, "argument of type 'int' is not iterable")

\* len(features)
IntResult(ok, v, e) == [ok |-> ok, val |-> v, err |-> e]
PyLen(f) ==
    CASE f.kind = "list" -> IntResult(TRUE, Len(f.items), "")
      [] f.kind = "number" -> IntResult(FALSE, 0, "object of type 'int' has no len()")
      [] f.kind = "bool" -> IntResult(FALSE, 0, "object of type 'bool' has no len()")
      [] OTHER -> IntResult(FALSE, 0, "object of type 'NoneType' has no len()")

\* np.array(features).reshape(1, -1): the dtype, the number of columns and
\* the flattened elements
Array(dt, items) == [dtype |-> dt, cols |-> Len(items), items |-> items]
NoArray == Array("none", <<>>)
ArrayResult(ok, a, e) == [ok |-> ok, arr |-> a, err |-> e]
Kinds(items) == {items[i].kind : i \in DOMAIN items}
Flatten(items) == [i \in 1..(2 * Len(items)) |-> Elem("num", items[(i + 1) \div 2].val)]
NpArray(items) ==
    LET ks == Kinds(items) IN
    CASE ks = {"list"} -> {ArrayResult(TRUE, Array("float", Flatten(items)), "")}
      [] "list" \in ks /\ ks # {"list"} ->
            \* ragged: an error since numpy 1.24, an object array before
            {ArrayResult(FALSE, NoArray, "inhomogeneous shape"),
             ArrayResult(TRUE, Array("object", items), "")}
      [] "list" \notin ks /\ "null" \in ks -> {ArrayResult(TRUE, Array("object", items), "")}
      [] "list" \notin ks /\ "null" \notin ks /\ "str" \in ks ->
            {ArrayResult(TRUE, Array("str", items), "")}
      [] OTHER -> {ArrayResult(TRUE, Array("float", items), "")}

\* the input validation scikit-learn runs inside predict / predict_proba
CheckArray(clf, a) ==
    CASE a.dtype = "str" -> "could not convert string to float"
      [] a.dtype = "object" -> "float() argument must be a string or a number"
      [] a.dtype = "float" /\ Kinds(a.items) \cap {"nan", "inf"} # {} ->
            "Input contains NaN or infinity"
      [] a.dtype = "float" /\ Kinds(a.items) \cap {"nan", "inf"} = {} /\ a.cols # clf.nfeat ->
            "X has a different number of features than the estimator expects"
      [] OTHER -> ""

RECURSIVE SumTo(_, _)
SumTo(items, n) == IF n = 0 THEN 0 ELSE items[n].val + SumTo(items, n - 1)
Sum(items) == SumTo(items, Len(items))

\* the fitted model: the probability of the positive class grows with the
\* measurements, and the decision is the more probable class
PosProba(a) ==
    LET p == Sum(a.items) * 61237 IN IF p > Scale THEN Scale ELSE p

\* model.predict(X)[0]
ModelPredict(clf, a) ==
    IF clf = None THEN IntResult(FALSE, 0, "'NoneType' object has no attribute 'predict'")
    ELSE IF CheckArray(clf, a) # "" THEN IntResult(FALSE, 0, CheckArray(clf, a))
    ELSE IntResult(TRUE, IF 2 * PosProba(a) > Scale THEN clf.posLabel ELSE 0, "")

\* model.predict_proba(X)[0]
ProbaResult(ok, v, e) == [ok |-> ok, val |-> v, err |-> e]
ModelPredictProba(clf, a) ==
    IF clf.probaFails THEN ProbaResult(FALSE, <<>>, "predict_proba failed")
    ELSE IF CheckArray(clf, a) # "" THEN ProbaResult(FALSE, <<>>, CheckArray(clf, a))
    ELSE ProbaResult(TRUE, <<Scale - PosProba(a), PosProba(a)>>, "")

\* hasattr(model, 'predict_proba')
\* (faulty variant: predict_proba is used only once some request has succeeded)
HasProbaAfterWarmup(clf) == clf.hasProba /\ \E t \in Threads : resp[t].status = 200
HasProba(clf) == clf.hasProba

----------------------------------------------------------------------------
(* Responses                                                               *)

\* jsonify(...), status: the error text is its format, the numbers and the
\* exception text put into it
Resp(route, status, error, nums, detail, diagnosis, confidence, prediction, loaded) ==
    [route |-> route, status |-> status, error |-> error, nums |-> nums,
     detail |-> detail, diagnosis |-> diagnosis, confidence |-> confidence,
     prediction |-> prediction, model_loaded |-> loaded]
NoResp == Resp("none", 0, "", <<>>, "", "", 0, 0, FALSE)
Failure(status, error, nums, detail) ==
    Resp("predict", status, error, nums, detail, "", 0, 0, FALSE)

InvalidRequest == Failure(400, "Invalid request. Expected \"features\" array.", <<>>, "")
WrongCount(n) == Failure(400, "Expected %d features, got %d", <<NFeatures, n>>, "")
NotLoaded == Failure(500, "Model not loaded. Please check server configuration.", <<>>, "")
InvalidValues(e) == Failure(400, "Invalid feature values: %s", <<>>, e)
PredictionError(e) == Failure(500, "Prediction error: %s", <<>>, e)
ServerError(e) == Failure(500, "Server error: %s", <<>>, e)
Success(diagnosis, confidence, prediction) ==
    Resp("predict", 200, "", <<>>, "", diagnosis, confidence, prediction, FALSE)

----------------------------------------------------------------------------
(* predict(): lines 63-91, up to the array                                 *)

\* what the first half of the handler leaves: a response, or the array
Front(r, a) == [returned |-> r # NoResp, resp |-> r, arr |-> a]

\* lines 85-91
ToArray(a) == IF a.ok THEN Front(NoResp, a.arr) ELSE Front(InvalidValues(a.err), NoArray)

\* lines 79-83, then 85-91
\* (faulty variant: the `model is None` test is missing)
CheckModelSkipped(m, a) == ToArray(a)
CheckModel(m, a) == IF m = None THEN Front(NotLoaded, NoArray) ELSE ToArray(a)

\* lines 73-77, then 79-91
\* (faulty variant: the model is tested before the count)
CheckCountAfterModel(m, n, a) ==
    IF m = None THEN Front(NotLoaded, NoArray)
    ELSE IF n # NFeatures THEN Front(WrongCount(n), NoArray) ELSE ToArray(a)
CheckCount(m, n, a) ==
    IF n # NFeatures THEN Front(WrongCount(n), NoArray) ELSE CheckModel(m, a)

\* lines 64-77 inside the outer try, whose handler is lines 119-122
PredictFront(m, j, a) ==
    IF ~j.ok THEN Front(ServerError(j.err), NoArray)
    ELSE IF ~Truthy(j.data) THEN Front(InvalidRequest, NoArray)
    ELSE IF ~Contains(j.data).ok THEN Front(ServerError(Contains(j.data).err), NoArray)
    ELSE IF ~Contains(j.data).val THEN Front(InvalidRequest, NoArray)
    ELSE IF ~PyLen(j.data.features).ok
         THEN Front(ServerError(PyLen(j.data.features).err), NoArray)
    ELSE CheckCount(m, PyLen(j.data.features).val, a)

----------------------------------------------------------------------------
(* predict(): lines 93-117, the classifier                                 *)

Max(s) == CHOOSE x \in {s[i] : i \in DOMAIN s} : \A i \in DOMAIN s : s[i] <= x

\* round(x, 2) of a percentage counted in 1/Scale: hundredths, ties to even
Round2(x) ==
    LET d == Scale \div 100
        q == x \div d
        r == x % d
    IN  IF 2 * r < d THEN q
        ELSE IF 2 * r > d THEN q + 1
        ELSE IF q % 2 = 0 THEN q ELSE q + 1

Min(s) == CHOOSE x \in {s[i] : i \in DOMAIN s} : \A i \in DOMAIN s : x <= s[i]

\* line 101 and line 103
\* (faulty variant: the smaller probability is taken)
ConfidenceOfMin(probabilities) == Min(probabilities) * 100
Confidence(probabilities) == Max(probabilities) * 100
FullConfidence == 100 * Scale

\* line 106
Diagnosis(prediction) == IF prediction = 1 THEN "Malignant" ELSE "Benign"

Call(fn, ok, label, proba, err) ==
    [fn |-> fn, ok |-> ok, label |-> label, proba |-> proba, err |-> err]

\* what the second half leaves: the response and the calls it made
Back(r, cs) == [resp |-> r, calls |-> cs]
\* (faulty variant: no inner try, the outer handler reports the failure)
PredictBackOuterHandler(m, a) ==
    LET p == ModelPredict(m, a)
        c1 == Call("predict", p.ok, p.val, <<>>, p.err)
    IN  IF ~p.ok THEN Back(ServerError(p.err), <<c1>>)
        ELSE IF HasProba(m)
             THEN LET q == ModelPredictProba(m, a)
                      c2 == Call("predict_proba", q.ok, 0, q.val, q.err)
                  IN  IF ~q.ok THEN Back(ServerError(q.err), <<c1, c2>>)
                      ELSE Back(Success(Diagnosis(p.val), Round2(Confidence(q.val)), p.val),
                                <<c1, c2>>)
             ELSE Back(Success(Diagnosis(p.val), Round2(FullConfidence), p.val), <<c1>>)
PredictBack(m, a) ==
    LET p == ModelPredict(m, a)
        c1 == Call("predict", p.ok, p.val, <<>>, p.err)
    IN  IF ~p.ok THEN Back(PredictionError(p.err), <<c1>>)
        ELSE IF HasProba(m)
             THEN LET q == ModelPredictProba(m, a)
                      c2 == Call("predict_proba", q.ok, 0, q.val, q.err)
                  IN  IF ~q.ok THEN Back(PredictionError(q.err), <<c1, c2>>)
                      ELSE Back(Success(Diagnosis(p.val), Round2(Confidence(q.val)), p.val),
                                <<c1, c2>>)
             ELSE Back(Success(Diagnosis(p.val), Round2(FullConfidence), p.val), <<c1>>)

----------------------------------------------------------------------------
(* info(): lines 125-133                                                   *)

InfoBody(m) == Resp("info", 200, "", <<>>, "", "", 0, 0, m # None)

----------------------------------------------------------------------------
(* Actions                                                                 *)

NoBody == Body("none", NoData)

Init ==
    /\ primary \in PrimaryFiles
    /\ fallback \in FallbackFiles
    /\ proc = "booting"
    /\ model = None
    /\ pc = [t \in Threads |-> "idle"]
    /\ req = [t \in Threads |-> NoBody]
    /\ X = [t \in Threads |-> NoArray]
    /\ calls = [t \in Threads |-> <<>>]
    /\ resp = [t \in Threads |-> NoResp]

\* import of the module: lines 16-35
Load ==
    /\ proc = "booting"
    /\ model' = Resolve(primary, fallback).model
    /\ proc' = IF Resolve(primary, fallback).raised THEN "crashed" ELSE "serving"
    /\ UNCHANGED <<primary, fallback, pc, req, X, calls, resp>>

Free(t) == proc = "serving" /\ pc[t] \in {"idle", "done"}

\* a thread takes a POST /api/predict with a body of B and runs it up to
\* the classifier
Receive(t, B) ==
    /\ Free(t)
    /\ \E b \in B : \E j \in GetJson(b) :
         \E a \in NpArray(b.data.features.items) :
            LET f == PredictFront(model, j, a) IN
            /\ req' = [req EXCEPT ![t] = b]
            /\ calls' = [calls EXCEPT ![t] = <<>>]
            /\ X' = [X EXCEPT ![t] = f.arr]
            /\ resp' = [resp EXCEPT ![t] = f.resp]
            /\ pc' = [pc EXCEPT ![t] = IF f.returned THEN "done" ELSE "infer"]
    /\ UNCHANGED <<primary, fallback, proc, model>>

\* the thread calls the classifier and returns
\* (faulty variant: a failed prediction drops the model)
InferResetsModel(t) ==
    /\ pc[t] = "infer"
    /\ LET b == PredictBack(model, X[t]) IN
         /\ resp' = [resp EXCEPT ![t] = b.resp]
         /\ calls' = [calls EXCEPT ![t] = b.calls]
         /\ model' = IF b.resp.status = 200 THEN model ELSE None
    /\ pc' = [pc EXCEPT ![t] = "done"]
    /\ UNCHANGED <<primary, fallback, proc, req, X>>
Infer(t) ==
    /\ pc[t] = "infer"
    /\ LET b == PredictBack(model, X[t]) IN
         /\ resp' = [resp EXCEPT ![t] = b.resp]
         /\ calls' = [calls EXCEPT ![t] = b.calls]
    /\ pc' = [pc EXCEPT ![t] = "done"]
    /\ UNCHANGED <<primary, fallback, proc, model, req, X>>

\* a thread serves GET /api/info
Info(t) ==
    /\ Free(t)
    /\ req' = [req EXCEPT ![t] = NoBody]
    /\ calls' = [calls EXCEPT ![t] = <<>>]
    /\ X' = [X EXCEPT ![t] = NoArray]
    /\ resp' = [resp EXCEPT ![t] = InfoBody(model)]
    /\ pc' = [pc EXCEPT ![t] = "done"]
    /\ UNCHANGED <<primary, fallback, proc, model>>

\* one worker serving every request of Bodies, one after the other
Next ==
    \/ Load
    \/ \E t \in Workers : Receive(t, Bodies)
    \/ \E t \in Workers : Infer(t)
    \/ \E t \in Workers : Info(t)

Spec == Init /\ [][Next]_vars

\* the threaded server: two workers interleave on the requests of SampleBodies
NextThreaded ==
    \/ Load
    \/ \E t \in Threads : Receive(t, SampleBodies)
    \/ \E t \in Threads : Infer(t)
    \/ \E t \in Threads : Info(t)

SpecThreaded == Init /\ [][NextThreaded]_vars

----------------------------------------------------------------------------
(* Vocabulary of the properties                                            *)

\* thread t has returned from predict()
Predicted(t) == pc[t] = "done" /\ resp[t].route = "predict"

\* the body is a JSON object whose 'features' is a list
HasList(b) ==
    /\ b.kind = "json"
    /\ b.data.kind = "object"
    /\ b.data.hasFeatures
    /\ b.data.features.kind = "list"
Items(b) == b.data.features.items
AllFinite(items) == \A i \in DOMAIN items : items[i].kind = "num"
ValidVector(b) == HasList(b) /\ Len(Items(b)) = NFeatures /\ AllFinite(Items(b))

\* the error kinds, as the responses that carry them
IsMalformedRequest(r) == r.status = 400 /\ r.error = "Invalid request. Expected \"features\" array."
IsWrongFeatureCount(r) == r.status = 400 /\ r.error = "Expected %d features, got %d"
IsInvalidFeatureValue(r) == r.status = 400 /\ r.error = "Invalid feature values: %s"
IsModelUnavailable(r) ==
    r.status = 500 /\ r.error = "Model not loaded. Please check server configuration."
IsInferenceFailure(r) == r.status = 500 /\ r.error = "Prediction error: %s"

----------------------------------------------------------------------------
(* Properties                                                              *)

\* C1: a request whose 'features' list has a length other than 8 ends with
\* status 400 and "Expected 8 features, got <n>", whatever its elements and
\* whether or not a model is loaded, and the classifier is not called.
C1_WrongFeatureCount ==
    \A t \in Threads :
        (req[t] # NoBody /\ HasList(req[t]) /\ Len(Items(req[t])) # NFeatures) =>
            /\ Predicted(t)
            /\ IsWrongFeatureCount(resp[t])
            /\ resp[t].nums = <<8, Len(Items(req[t]))>>
            /\ calls[t] = <<>>

C1_Witness ==
    \E t \in Threads :
        /\ model = None
        /\ proc = "serving"
        /\ HasList(req[t])
        /\ Len(Items(req[t])) > NFeatures
        /\ ~AllFinite(Items(req[t]))
        /\ IsWrongFeatureCount(resp[t])

\* C2: with a model loaded, a request whose 'features' list has 8 elements
\* of which one is not a finite number ends with status 400 and "Invalid
\* feature values", and the classifier is not called for it.
C2_InvalidFeatureValue ==
    \A t \in Threads :
        (model # None /\ Predicted(t) /\ HasList(req[t])
            /\ Len(Items(req[t])) = NFeatures /\ ~AllFinite(Items(req[t]))) =>
            /\ IsInvalidFeatureValue(resp[t])
            /\ calls[t] = <<>>

\* C3 as stated, for the requests that carry a 'features' list: with no
\* model loaded, such a request ends with status 500 and "Model not
\* loaded...", whatever the length of the list and whatever its elements.
C3_AlwaysModelUnavailable ==
    \A t \in Threads :
        (proc = "serving" /\ model = None /\ Predicted(t) /\ HasList(req[t]))
            => IsModelUnavailable(resp[t])

\* C3: with no model loaded, every prediction request whose 'features' list
\* has 8 elements, numeric or not, ends with status 500 and "Model not
\* loaded..."; every other request ends with an error response of status 400
\* or 500; no request reaches the classifier.
C3_ModelUnavailable ==
    \A t \in Threads :
        (proc = "serving" /\ model = None /\ req[t] # NoBody) =>
            /\ Predicted(t)
            /\ calls[t] = <<>>
            /\ resp[t].status \in {400, 500}
            /\ (HasList(req[t]) /\ Len(Items(req[t])) = NFeatures)
                  => IsModelUnavailable(resp[t])

C3_Witness ==
    \E t \in Threads :
        /\ model = None
        /\ Predicted(t)
        /\ HasList(req[t])
        /\ Len(Items(req[t])) = NFeatures
        /\ ~AllFinite(Items(req[t]))
        /\ IsModelUnavailable(resp[t])

\* C4, for the bodies that parse as JSON: a request whose payload is not an
\* object with a 'features' list ends with status 400 and the "Invalid
\* request" error, never 500, and the classifier is not called.
C4_MalformedRequest ==
    \A t \in Threads :
        (Predicted(t) /\ req[t].kind = "json" /\ ~HasList(req[t])) =>
            /\ IsMalformedRequest(resp[t])
            /\ calls[t] = <<>>

\* C5: a success response carries a class index of 0 or 1, with diagnosis
\* Malignant exactly for 1 and Benign exactly for 0; when the classifier
\* returns another label the request ends in an error response.
C5_DiagnosisMapping ==
    \A t \in Threads :
        Predicted(t) =>
            /\ resp[t].status = 200 =>
                  /\ resp[t].prediction \in {0, 1}
                  /\ (resp[t].diagnosis = "Malignant") = (resp[t].prediction = 1)
                  /\ (resp[t].diagnosis = "Benign") = (resp[t].prediction = 0)
            /\ (calls[t] # <<>> /\ calls[t][1].ok /\ calls[t][1].label \notin {0, 1})
                  => resp[t].status # 200

\* C6: the confidence of a success response is within [0, 100]; it is 100
\* times the largest probability predict_proba returned, rounded to two
\* decimals, and exactly 100.0 when the classifier has no predict_proba.
C6_Confidence ==
    \A t \in Threads :
        (Predicted(t) /\ resp[t].status = 200) =>
            LET c == resp[t].confidence
                d == Scale \div 100
            IN  /\ 0 <= c /\ c <= 100 * 100
                /\ model.hasProba =>
                      /\ Len(calls[t]) = 2
                      /\ calls[t][2].fn = "predict_proba"
                      /\ \A i \in 1..2 : calls[t][2].proba[i] * 100 <= c * d + d \div 2
                      /\ \E i \in 1..2 : calls[t][2].proba[i] * 100 >= c * d - d \div 2
                /\ ~model.hasProba => (c = 100 * 100 /\ Len(calls[t]) = 1)

C6_Witness ==
    \E t \in Threads :
        /\ Predicted(t)
        /\ resp[t].status = 200
        /\ model.hasProba
        /\ resp[t].confidence * (Scale \div 100) > calls[t][2].proba[1] * 100
        /\ resp[t].confidence * (Scale \div 100) > calls[t][2].proba[2] * 100

\* C7: startup raises nothing, and leaves a model exactly when the primary
\* path exists and loads, or the primary path is missing and the fallback
\* path exists and loads; the model is then the one of that file.
C7_Resolve ==
    proc # "booting" =>
        /\ proc = "serving"
        /\ (model # None) = \/ (primary.exists /\ primary.loads)
                            \/ (~primary.exists /\ fallback.exists /\ fallback.loads)
        /\ (model # None /\ primary.exists) => model = primary.obj
        /\ (model # None /\ ~primary.exists) => model = fallback.obj

C7_Witness ==
    /\ proc = "serving"
    /\ primary.exists /\ ~primary.loads
    /\ fallback.exists /\ fallback.loads
    /\ model = None

\* C8: no request is served before startup has bound the model; from then
\* on the model stays the one startup bound, however the requests of the
\* two threads interleave, and /api/info reports whether it is loaded.
C8_HandleFixed ==
    /\ proc = "booting" => \A t \in Threads : pc[t] = "idle" /\ resp[t] = NoResp
    /\ proc = "serving" =>
          /\ model = Resolve(primary, fallback).model
          /\ \A t \in Threads :
                resp[t].route = "info" => resp[t].model_loaded = (model # None)

C8_Witness ==
    \E t, u \in Threads :
        /\ Predicted(t) /\ resp[t].status = 500 /\ calls[t] # <<>>
        /\ pc[u] = "done" /\ resp[u].route = "info" /\ resp[u].model_loaded

\* C9: with a model loaded and a valid vector, a failure of predict or of
\* predict_proba ends the request with status 500 and "Prediction error"
\* followed by the failure's message, and the thread is free to serve the
\* next request.
C9_InferenceFailure ==
    \A t \in Threads :
        (Predicted(t) /\ model # None /\ ValidVector(req[t])
            /\ calls[t] # <<>> /\ ~calls[t][Len(calls[t])].ok) =>
            /\ IsInferenceFailure(resp[t])
            /\ resp[t].detail = calls[t][Len(calls[t])].err
            /\ resp[t].detail # ""
            /\ Free(t)

C9_Witness ==
    \E t \in Threads :
        /\ Predicted(t)
        /\ ValidVector(req[t])
        /\ Len(calls[t]) = 2
        /\ calls[t][1].ok
        /\ ~calls[t][2].ok
        /\ IsInferenceFailure(resp[t])

\* C10: two requests with the same valid vector get the same diagnosis,
\* confidence and class index, whatever was served before or between them.
C10_Deterministic ==
    \A t, u \in Threads :
        (Predicted(t) /\ Predicted(u) /\ model # None
            /\ ValidVector(req[t]) /\ req[u] = req[t]) =>
            /\ resp[u].status = resp[t].status
            /\ resp[u].diagnosis = resp[t].diagnosis
            /\ resp[u].confidence = resp[t].confidence
            /\ resp[u].prediction = resp[t].prediction

C10_Witness ==
    \E t, u \in Threads :
        /\ t # u
        /\ Predicted(t) /\ Predicted(u)
        /\ ValidVector(req[t]) /\ req[u] = req[t]
        /\ resp[t].status = 200 /\ resp[u].status = 200
        /\ resp[t].confidence < 100 * 100

====
